---- MODULE Spec2Model ----
(***************************************************************************)
(* Card resolution (backend/services/card_service.py), price aggregation   *)
(* (backend/services/price_service.py) and the two upload endpoints        *)
(* (backend/app.py, backend/services/vision_service.py) of the Pokemon     *)
(* card price checker.                                                     *)
(*                                                                         *)
(* Python strings are sequences of one-character strings.  Values that are *)
(* never taken apart (None, a missing key, fixed labels) are one-element   *)
(* sequences holding a long token, so they never equal a real string.      *)
(* Money is an integer: catalog market values in mills (1/1000 USD),       *)
(* observation prices and market_price in cents.                           *)
(***************************************************************************)
EXTENDS Integers, Sequences, FiniteSets, TLC

VARIABLES
    pc,            \* position of the get_card_details call
    card_name,     \* argument card_name
    set_name,      \* argument set_name (None when not given)
    card_number,   \* argument card_number (None when not given)
    number_form,   \* how the caller wrote card_number: blank, token n, blank, total
    response,      \* what the catalog request produced
    requests,      \* catalog requests issued by the current call
    result,        \* the record get_card_details returned
    prev,          \* the call before the current one, for comparing two calls
    ppc,           \* position of the get_prices call
    card_details,  \* argument card_details of get_prices
    quotes,        \* the adapters queried so far in this call, with what each did
    prices,        \* the local list prices of get_prices
    report,        \* the dictionary get_prices returned
    prev_report,   \* the report of the get_prices call before the current one
    epc,           \* position of the endpoint handling the current upload
    endpoint,      \* the endpoint the upload was posted to
    reply,         \* what came back from the vision model
    identification,\* the value identify_card returned to the endpoint
    http           \* the response of the endpoint

cardVars  == <<pc, card_name, set_name, card_number, number_form, response,
               requests, result, prev>>
priceVars == <<ppc, card_details, quotes, prices, report, prev_report>>
pipeVars  == <<epc, endpoint, reply, identification, http>>
vars      == <<pc, card_name, set_name, card_number, number_form, response,
               requests, result, prev, ppc, card_details, quotes, prices,
               report, prev_report, epc, endpoint, reply, identification, http>>

-----------------------------------------------------------------------------
(* Bounds *)

\* Longest candidate list the catalog returns in the model.
MaxCards == 2

-----------------------------------------------------------------------------
(* Python values *)

None       == <<"None">>
Absent     == <<"Absent">>
Common     == <<"Common">>
UnknownSet == <<"Unknown Set">>
MockSeries == <<"Mock Series">>

\* bool(s) of an Optional[str]
Truthy(s) == s # None /\ s # <<>>

\* d.get(key, default) where v is the stored value, Absent when the key is missing
Get(v, default) == IF v = Absent THEN default ELSE v

LowerChar(c) ==
    CASE c = "B" -> "b" [] c = "S" -> "s" [] c = "J" -> "j" [] c = "X" -> "x"
      [] c = "Y" -> "y" [] c = "E" -> "e" [] c = "P" -> "p"
      [] OTHER -> c

\* str.lower()
Lower(s) == [i \in 1..Len(s) |-> LowerChar(s[i])]

\* sub in s
Contains(sub, s) ==
    \E i \in 0..(Len(s) - Len(sub)) :
        \A j \in 1..Len(sub) : s[i + j] = sub[j]

\* s.split("/")[0]
Split0(s) ==
    LET cut == {i \in 1..Len(s) : s[i] = "/"}
    IN  IF cut = {} THEN s
        ELSE SubSeq(s, 1, (CHOOSE i \in cut : \A j \in cut : i <= j) - 1)

\* s.strip()
Strip(s) ==
    LET keep == {i \in 1..Len(s) : s[i] # " "}
        first == CHOOSE i \in keep : \A j \in keep : i <= j
        last == CHOOSE i \in keep : \A j \in keep : i >= j
    IN  IF keep = {} THEN <<>> ELSE SubSeq(s, first, last)

\* s.replace(" ", "")
RemoveSpaces(s) == SelectSeq(s, LAMBDA c : c # " ")

\* s[:n]
Prefix(s, n) == SubSeq(s, 1, IF Len(s) < n THEN Len(s) ELSE n)

-----------------------------------------------------------------------------
(* Strings of the model *)

sPika    == <<"P", "i", "k", "a">>
sBaseSet == <<"B", "a", "s", "e", " ", "S", "e", "t">>
sBase    == <<"b", "a", "s", "e">>
sJungle  == <<"J", "u", "n", "g", "l", "e">>
sXYEvo   == <<"X", "Y", " ", "E", "v", "o">>
sBlank   == <<" ">>
sUnknown == <<"u", "n", "k", "n", "o", "w", "n">>
s001     == <<"0", "0", "1">>
s102     == <<"1", "0", "2">>
s5       == <<"5">>
s58      == <<"5", "8">>
sUrl     == <<"tcgplayer.com/p/1">>
sImage   == <<"images/large.png">>
sRare    == <<"Rare">>

-----------------------------------------------------------------------------
(* Catalog price data: card["tcgplayer"]["prices"] *)

Variants == <<"normal", "holofoil", "reverseHolofoil", "1stEdition">>

\* A variant of the price block: the key is missing ("absent"), the variant has
\* no "market" key ("nomarket"), market is null ("null"), or market is a number
\* of mills ("value").
VAbsent    == [kind |-> "absent", market |-> 0]
VNoMarket  == [kind |-> "nomarket", market |-> 0]
VNull      == [kind |-> "null", market |-> 0]
VMarket(m) == [kind |-> "value", market |-> m]

NoPrices == [v \in 1..4 |-> VAbsent]

\* card.get("tcgplayer", {}) of a card that has no such key, or an empty one
EmptyTcg == [url |-> Absent, prices |-> NoPrices]

-----------------------------------------------------------------------------
(* CardService.get_card_details *)

\* MockCard with the number trimmed and the set name's blanks kept in the id
MockCardTrimmed(name, sname, number) ==
    LET set_prefix == IF Truthy(sname) THEN Prefix(Lower(sname), 4) ELSE sUnknown
        card_num   == IF Truthy(number) THEN Strip(Split0(number)) ELSE s001
    IN  [id            |-> set_prefix \o <<"-">> \o card_num,
         name          |-> name,
         set           |-> IF Truthy(sname) THEN sname ELSE UnknownSet,
         number        |-> IF Truthy(number) THEN number ELSE s001,
         rarity        |-> Common,
         image_url     |-> None,
         set_series    |-> MockSeries,
         tcgplayer_url |-> None,
         tcgplayer     |-> [url |-> Absent, prices |-> [v \in 1..4 |-> VAbsent]]]

\* the fallback record built after the try block
MockCard(name, sname, number) ==
    LET set_prefix == IF Truthy(sname)
                      THEN Prefix(RemoveSpaces(Lower(sname)), 4)
                      ELSE sUnknown
        card_num   == IF Truthy(number) THEN Split0(number) ELSE s001
    IN  [id            |-> set_prefix \o <<"-">> \o card_num,
         name          |-> name,
         set           |-> IF Truthy(sname) THEN sname ELSE UnknownSet,
         number        |-> IF Truthy(number) THEN number ELSE s001,
         rarity        |-> Common,
         image_url     |-> None,
         set_series    |-> MockSeries,
         tcgplayer_url |-> None,
         tcgplayer     |-> EmptyTcg]

\* the record returned for the candidate that matched inside the loop
MatchRecord(card) ==
    [id            |-> Get(card.id, None),
     name          |-> Get(card.name, None),
     set           |-> Get(card.set, <<>>),
     number        |-> Get(card.number, <<>>),
     rarity        |-> Get(card.rarity, None),
     image_url     |-> Get(card.image, None),
     set_series    |-> Get(card.series, None),
     tcgplayer_url |-> Get(card.tcgplayer.url, None),
     tcgplayer     |-> card.tcgplayer]

\* the record returned for cards[0] when the loop matched nothing
FirstRecord(card) ==
    [id            |-> Get(card.id, None),
     name          |-> Get(card.name, None),
     set           |-> Get(card.set, None),
     number        |-> Get(card.number, None),
     rarity        |-> Get(card.rarity, None),
     image_url     |-> Get(card.image, None),
     set_series    |-> Get(card.series, None),
     tcgplayer_url |-> Get(card.tcgplayer.url, None),
     tcgplayer     |-> card.tcgplayer]

\* set_match of one loop iteration: "raise" when card_set is None and
\* card_set.lower() is evaluated
SetMatch(card, sname) ==
    LET card_set == Get(card.set, <<>>)
    IN  IF ~Truthy(sname) THEN "yes"
        ELSE IF card_set = None THEN "raise"
        ELSE IF Contains(Lower(sname), Lower(card_set)) THEN "yes" ELSE "no"

\* num_match of one loop iteration: "raise" when card_num is None and
\* query_num in card_num is evaluated
NumMatch(card, number) ==
    LET card_num  == Get(card.number, <<>>)
        query_num == Strip(Split0(number))
    IN  IF ~Truthy(number) THEN "yes"
        ELSE IF card_num = None THEN "raise"
        ELSE IF Contains(query_num, card_num) THEN "yes" ELSE "no"

\* one loop iteration: both tests are evaluated, set_match first
CardMatches(card, sname, number) ==
    LET s == SetMatch(card, sname)
        n == NumMatch(card, number)
    IN  IF s = "raise" \/ n = "raise" THEN "raise"
        ELSE IF s = "yes" /\ n = "yes" THEN "yes" ELSE "no"

\* the loop over cards from position i: the position of the first match, 0 when
\* the loop ends without one, -1 when an iteration raises before any match
RECURSIVE FindMatch(_, _, _, _)
FindMatch(cards, i, sname, number) ==
    IF i > Len(cards) THEN 0
    ELSE LET m == CardMatches(cards[i], sname, number)
         IN  IF m = "raise" THEN -1
             ELSE IF m = "yes" THEN i
             ELSE FindMatch(cards, i + 1, sname, number)

\* the body of the try block, given what the catalog request produced:
\* a return, an exception, or falling out of the block with no cards found
TryBlock(sname, number, outcome) ==
    IF outcome.kind # "ok" THEN [kind |-> "except", exc |-> outcome.kind, card |-> 0]
    ELSE IF outcome.cards = <<>> THEN [kind |-> "fall", exc |-> "", card |-> 0]
    ELSE LET k == FindMatch(outcome.cards, 1, sname, number)
         IN  IF k = -1 THEN [kind |-> "except", exc |-> "Exception", card |-> 0]
             ELSE [kind |-> "return", exc |-> "", card |-> k]

\* only the first except clause
CaughtTransportOnly == {"ReadTimeout", "HTTPError"}

\* the exceptions the two except clauses catch
Caught == {"ReadTimeout", "HTTPError", "Exception"}

NoCard == [id |-> None, name |-> None, set |-> None, number |-> None,
           rarity |-> None, image_url |-> None, set_series |-> None,
           tcgplayer_url |-> None, tcgplayer |-> EmptyTcg]

\* what get_card_details gives its caller
GetCardDetails(name, sname, number, outcome) ==
    LET t == TryBlock(sname, number, outcome)
    IN  IF t.kind = "return"
        THEN [status |-> "returned",
              value  |-> IF t.card = 0 THEN FirstRecord(outcome.cards[1])
                         ELSE MatchRecord(outcome.cards[t.card])]
        ELSE IF t.kind = "except" /\ t.exc \notin Caught
        THEN [status |-> "raised", value |-> NoCard]
        ELSE [status |-> "returned", value |-> MockCard(name, sname, number)]

-----------------------------------------------------------------------------
(* Inputs of get_card_details *)

CardNames == {sPika}

SetNames == {None, <<>>, sBlank, sBase, sBaseSet, sXYEvo}

\* card_number as the recognizer writes it: the token n, possibly with a blank
\* before or after it, possibly followed by "/total"
Tokens == {<<>>, s5, s58}
Pads   == {<<>>, sBlank}
Totals == {None, s102}

NumberText(f) ==
    f.lpad \o f.token \o f.rpad \o (IF f.total = None THEN <<>> ELSE <<"/">> \o f.total)

NumberForms == [lpad : Pads, token : Tokens, rpad : Pads, total : Totals]

\* card_number is not given
NoForm == [lpad |-> <<>>, token |-> None, rpad |-> <<>>, total |-> None]

\* the form of the bare number n
BareForm(f) == [lpad |-> <<>>, token |-> f.token, rpad |-> <<>>, total |-> None]

\* raw catalog cards: id, name, set name (card["set"]["name"]) and number are
\* Absent when the key is missing and None when it is null
RawCard(id, sname, number, tcg) ==
    [id |-> id, name |-> sPika, set |-> sname, number |-> number,
     rarity |-> sRare, image |-> sImage, series |-> Absent, tcgplayer |-> tcg]

HoloTcg == [url |-> sUrl,
            prices |-> [v \in 1..4 |-> IF v = 2 THEN VMarket(12340) ELSE VAbsent]]

CatalogCards ==
    { RawCard(<<"b", "1", "-", "5", "8">>, sBaseSet, s58, HoloTcg),
      RawCard(<<"b", "1", "-", "5">>, sBaseSet, s5, EmptyTcg),
      RawCard(<<"j", "-", "5", "8">>, sJungle, s58, EmptyTcg),
      RawCard(Absent, sXYEvo, Absent, EmptyTcg),
      RawCard(<<"n", "1">>, None, s58, EmptyTcg),
      RawCard(<<"n", "2">>, sBaseSet, None, EmptyTcg) }

CardLists == UNION {[1..n -> CatalogCards] : n \in 0..MaxCards}

Failures == {"ReadTimeout", "HTTPError", "Exception"}

NoResponse == [kind |-> "none", cards |-> <<>>]
NoResult   == [status |-> "none", value |-> NoCard]
NoPrev     == [card_number |-> None, number_form |-> NoForm, response |-> NoResponse, result |-> NoResult,
               called |-> FALSE]

-----------------------------------------------------------------------------
(* PriceService *)

\* a float that is a whole number of mills, rounded to cents by round(x, 2);
\* halves go to the even cent
RoundMills(m) ==
    LET q == m \div 10
        r == m % 10
    IN  IF r < 5 THEN q
        ELSE IF r > 5 THEN q + 1
        ELSE IF q % 2 = 0 THEN q ELSE q + 1

\* round(num / den, 2) in cents for den > 0, halves to the even cent
RoundRatio(num, den) ==
    LET q == num \div den
        r == num % den
    IN  IF 2 * r < den THEN q
        ELSE IF 2 * r > den THEN q + 1
        ELSE IF q % 2 = 0 THEN q ELSE q + 1

sTcgHome      == <<"https://www.tcgplayer.com">>
sTcgSearch    == <<"https://www.tcgplayer.com/search/pokemon/product?q=">>
sEbaySearch   == <<"https://www.ebay.com/sch/i.html?_nkw=">>
sEbaySearchUS == <<"https://www.ebay.com/sch/i.html?_nkw=&LH_PrefLoc=1">>
sCardmarket   == <<"https://www.cardmarket.com/en/Pokemon/Products/Search">>

Observation(source, price, condition, url, seller) ==
    [source |-> source, price |-> price, currency |-> "USD",
     condition |-> condition, url |-> url, in_stock |-> TRUE, seller |-> seller]

Conditions == <<"Near Mint", "Near Mint (Holofoil)", "Near Mint (Reverse Holo)",
                "Near Mint (1st Edition)">>

\* the four variant blocks of _extract_tcgplayer_prices from variant i on, with
\* acc the list so far; a variant that is no dict raises at "market" in ...
\* and the except clause leaves the list as it is
RECURSIVE ExtractFrom(_, _, _, _)
ExtractFrom(tcg_prices, url, i, acc) ==
    IF i > 4 THEN acc
    ELSE LET v == tcg_prices[i]
         IN  IF v.kind = "absent" THEN ExtractFrom(tcg_prices, url, i + 1, acc)
             ELSE IF v.kind = "nodict" THEN acc
             ELSE IF v.kind = "value" /\ v.market # 0
             THEN ExtractFrom(tcg_prices, url, i + 1,
                      Append(acc, Observation("TCGPlayer", RoundMills(v.market),
                                              Conditions[i],
                                              IF url = Absent THEN sTcgHome ELSE url,
                                              "TCGPlayer Market")))
             ELSE ExtractFrom(tcg_prices, url, i + 1, acc)

ExtractTcgplayerPrices(details) ==
    ExtractFrom(details.tcgplayer.prices, details.tcgplayer.url, 1, <<>>)

\* the three adapters: q.fails says that the body of the try block raises,
\* q.base is the value random.uniform gave, in mills
Returned(list) == [raised |-> FALSE, prices |-> list]
Raised         == [raised |-> TRUE, prices |-> <<>>]

GetTcgplayerPrices(q) ==
    IF q.fails THEN Returned(<<>>)
    ELSE Returned(<<Observation("TCGPlayer", RoundMills(q.base), "Near Mint",
                                sTcgSearch, "TCGPlayer Market"),
                    Observation("TCGPlayer", RoundRatio(q.base * 85, 1000),
                                "Lightly Played", sTcgSearch, "TCGPlayer Market")>>)

\* _get_ebay_prices without its except clause
GetEbayPricesUncaught(q) ==
    IF q.fails THEN Raised
    ELSE Returned(<<Observation("eBay", RoundMills(q.base), "Near Mint",
                                sEbaySearch, "Various Sellers"),
                    Observation("eBay", RoundRatio(q.base * 115, 1000),
                                "Mint/PSA Graded", sEbaySearchUS, "Various Sellers")>>)

GetEbayPrices(q) ==
    IF q.fails THEN Returned(<<>>)
    ELSE Returned(<<Observation("eBay", RoundMills(q.base), "Near Mint",
                                sEbaySearch, "Various Sellers"),
                    Observation("eBay", RoundRatio(q.base * 115, 1000),
                                "Mint/PSA Graded", sEbaySearchUS, "Various Sellers")>>)

GetCardmarketPrices(q) ==
    IF q.fails THEN Returned(<<>>)
    ELSE Returned(<<Observation("Cardmarket", RoundMills(q.base), "Near Mint",
                                sCardmarket, "Cardmarket Sellers")>>)

RECURSIVE SumPrices(_)
SumPrices(list) ==
    IF list = <<>> THEN 0 ELSE list[1].price + SumPrices(Tail(list))

Max(S) == CHOOSE x \in S : \A y \in S : y <= x
Min(S) == CHOOSE x \in S : \A y \in S : x <= y

Null     == [null |-> TRUE, value |-> 0]
Cents(x) == [null |-> FALSE, value |-> x]

\* market_price, floored instead of rounded
MarketPricesFloored(list) ==
    IF list = <<>> THEN {Null} ELSE {Cents(SumPrices(list) \div Len(list))}

\* market_price computed only for two observations or more
MarketPricesFromTwo(list) ==
    IF Len(list) < 2 THEN {Null}
    ELSE {Cents(RoundRatio(SumPrices(list), Len(list)))}

\* the values market_price can take: round(total / len(prices), 2); where the
\* mean lies exactly between two cents the binary value of the quotient
\* decides, so both cents are possible
MarketPrices(list) ==
    IF list = <<>> THEN {Null}
    ELSE LET n == Len(list)
             q == SumPrices(list) \div n
             r == SumPrices(list) % n
         IN  IF 2 * r < n THEN {Cents(q)}
             ELSE IF 2 * r > n THEN {Cents(q + 1)}
             ELSE {Cents(q), Cents(q + 1)}

\* the values the test variation > 0.3 of _determine_trend can give, with
\* variation = (max - min) / avg when avg > 0 and 0 otherwise; in exact
\* arithmetic it is (max - min) * n * 10 > 3 * total.  The quotient is a binary
\* float: where the exact value is 0.3 it is 0.3 or the float next above it
\* (11.90 and 16.10 give 0.30000000000000004), so both answers are possible
VariationAbove(list) ==
    LET n         == Len(list)
        total     == SumPrices(list)
        all       == {list[i].price : i \in 1..n}
        spread    == (Max(all) - Min(all)) * n * 10
    IN  IF total <= 0 THEN {FALSE}
        ELSE IF spread > 3 * total THEN {TRUE}
        ELSE IF spread < 3 * total THEN {FALSE}
        ELSE {TRUE, FALSE}

\* _determine_trend with the last-is-lowest test before the last-is-highest one
DetermineTrendFallingFirst(list, above) ==
    IF list = <<>> THEN "unknown"
    ELSE LET all_prices == [i \in 1..Len(list) |-> list[i].price]
             n          == Len(list)
             max_price  == Max({all_prices[i] : i \in 1..n})
             min_price  == Min({all_prices[i] : i \in 1..n})
         IN  IF above THEN "volatile"
             ELSE IF min_price = all_prices[n] THEN "falling"
             ELSE IF max_price = all_prices[n] THEN "rising"
             ELSE "stable"

\* _determine_trend, given the value of its test variation > 0.3
DetermineTrend(list, above) ==
    IF list = <<>> THEN "unknown"
    ELSE LET all_prices == [i \in 1..Len(list) |-> list[i].price]
             n          == Len(list)
             max_price  == Max({all_prices[i] : i \in 1..n})
             min_price  == Min({all_prices[i] : i \in 1..n})
         IN  IF above THEN "volatile"
             ELSE IF max_price = all_prices[n] THEN "rising"
             ELSE IF min_price = all_prices[n] THEN "falling"
             ELSE "stable"

\* the trends _determine_trend can return for a list
Trends(list) ==
    IF list = <<>> THEN {"unknown"}
    ELSE {DetermineTrend(list, above) : above \in VariationAbove(list)}

\* the dictionary get_prices returns
Report(list, market_price, trend) ==
    [status |-> "returned", prices |-> list, market_price |-> market_price,
     trend |-> trend, total_sources |-> Len(list)]

-----------------------------------------------------------------------------
(* Inputs of get_prices *)

\* market values of the catalog, in mills
MarketValues == {0, 4, 10000, 11900, 12340, 15000, 16100, 20000}

VNoDict == [kind |-> "nodict", market |-> 0]

VariantValues ==
    {VAbsent, VNoMarket, VNull, VNoDict} \cup {VMarket(m) : m \in MarketValues}

\* a price block with a holofoil market value and no listing URL
HoloTcgNoUrl == [url |-> Absent, prices |-> HoloTcg.prices]

NoDetails == [given |-> FALSE, tcgplayer_url |-> None, tcgplayer |-> EmptyTcg]

\* the dictionaries given as card_details: none, a card without a listing URL
\* (with or without a price block), a card with listing URL and price block
CardDetails ==
    {NoDetails} \cup
    [given : {TRUE}, tcgplayer_url : {None},
     tcgplayer : {EmptyTcg, HoloTcg, HoloTcgNoUrl}] \cup
    [given : {TRUE}, tcgplayer_url : {sUrl},
     tcgplayer : [url : {Absent, sUrl}, prices : [1..4 -> VariantValues]]]

\* values of random.uniform in the three adapters, in mills
TcgplayerBases  == {5000, 12345}
EbayBases       == {8000, 55000}
CardmarketBases == {6000}

Quotes(adapter, bases) ==
    {[adapter |-> adapter, fails |-> TRUE, base |-> 0]} \cup
    {[adapter |-> adapter, fails |-> FALSE, base |-> b] : b \in bases}

NoQuotes  == <<>>
NoReport  == [status |-> "none", prices |-> <<>>, market_price |-> Null,
              trend |-> "", total_sources |-> 0]
RaisedReport == [status |-> "raised", prices |-> <<>>, market_price |-> Null,
                 trend |-> "", total_sources |-> 0]

-----------------------------------------------------------------------------
(* Values of the endpoints of app.py and of VisionService.identify_card *)

\* what comes back from the vision model: the service has no client, the API
\* call fails, or there is a message whose text is JSON (bare or in a code
\* fence) or is no JSON at all
NullIdent  == [shape |-> "null", card_name |-> Absent, set_name |-> Absent,
               card_number |-> Absent]
EmptyIdent == [shape |-> "empty", card_name |-> Absent, set_name |-> Absent,
               card_number |-> Absent]

s58of102 == s58 \o <<"/">> \o s102

\* the JSON values the message text can hold: null, {}, or an object naming
\* the card, with or without set name and number
Idents ==
    {NullIdent, EmptyIdent} \cup
    [shape : {"dict"}, card_name : {sPika}, set_name : {sBaseSet, Absent},
     card_number : {s58of102, Absent}]

VisionReplies ==
    {[kind |-> k, value |-> NullIdent] : k \in {"unconfigured", "api_error", "text"}}
    \cup [kind : {"bare_json", "fenced_json"}, value : Idents]

\* VisionService.identify_card: the ValueError of an unconfigured client, the
\* exception of the API call and that of json.loads all reach the caller
IdentifyCard(r) ==
    IF r.kind \in {"unconfigured", "api_error", "text"}
    THEN [raised |-> TRUE, value |-> NullIdent]
    ELSE [raised |-> FALSE, value |-> r.value]

\* truth value of what identify_card returned: None and {} are false
IdentTruthy(ident) == ident.shape = "dict"

\* check_price taking a record without an id for no record
DetailsTruthyNeedsId(rec) == rec.id # None

\* truth value of the dictionary get_card_details returned
DetailsTruthy(rec) == DOMAIN rec # {}

\* the response of an endpoint: status 0 while there is none
NoBody == [card_name |-> None, set_name |-> None, card_number |-> None,
           card_id |-> None, prices |-> <<>>, market_price |-> Null,
           price_trend |-> ""]
NoHttp == [status |-> 0, detail |-> "", body |-> NoBody]
HttpError(status, detail) == [status |-> status, detail |-> detail, body |-> NoBody]

CouldNotIdentify == HttpError(404, "Could not identify the Pokemon card from the image")
NotInDatabase    == HttpError(404, "not found in database")
NotAnImage       == HttpError(400, "File must be an image")
Unexpected       == HttpError(500, "Error processing")

\* the fields card_name, set_name, card_number and card_id of both response
\* models are declared str: None fails validation
ValidCard(rec) ==
    rec.name # None /\ rec.set # None /\ rec.number # None /\ rec.id # None

\* CardIdentificationResponse(...) of identify_card; the validation error is
\* caught by except Exception
IdentificationResponse(rec) ==
    IF ~ValidCard(rec) THEN Unexpected
    ELSE [status |-> 200, detail |-> "",
          body |-> [card_name |-> rec.name, set_name |-> rec.set,
                    card_number |-> rec.number, card_id |-> rec.id,
                    prices |-> <<>>, market_price |-> Null, price_trend |-> ""]]

\* PriceCheckResponse(...) of check_price; the validation error is caught by
\* except Exception
PriceCheckResponse(rec, rep) ==
    IF ~ValidCard(rec) THEN Unexpected
    ELSE [status |-> 200, detail |-> "",
          body |-> [card_name |-> rec.name, set_name |-> rec.set,
                    card_number |-> rec.number, card_id |-> rec.id,
                    prices |-> rep.prices, market_price |-> rep.market_price,
                    price_trend |-> rep.trend]]

\* the outcomes of the catalog request
CatalogOutcomes ==
    {[kind |-> "ok", cards |-> cards] : cards \in CardLists}
    \cup {[kind |-> exc, cards |-> <<>>] : exc \in Failures}

NoReply == [kind |-> "none", value |-> NullIdent]

-----------------------------------------------------------------------------
(* The calls *)

CardInit ==
    /\ pc = "idle"
    /\ card_name = None
    /\ set_name = None
    /\ card_number = None
    /\ number_form = NoForm
    /\ response = NoResponse
    /\ requests = 0
    /\ result = NoResult
    /\ prev = NoPrev

PriceInit ==
    /\ ppc = "idle"
    /\ card_details = NoDetails
    /\ quotes = NoQuotes
    /\ prices = <<>>
    /\ report = NoReport
    /\ prev_report = NoReport

PipeInit ==
    /\ epc = "idle"
    /\ endpoint = "none"
    /\ reply = NoReply
    /\ identification = NullIdent
    /\ http = NoHttp

Init == CardInit /\ PriceInit /\ PipeInit

\* get_card_details is called and issues its one catalog request
CallGetCardDetails ==
    /\ pc = "idle"
    /\ \E name \in CardNames, sname \in SetNames :
          /\ card_name' = name
          /\ set_name' = sname
    /\ \/ card_number' = None /\ number_form' = NoForm
       \/ \E f \in NumberForms :
             /\ card_number' = NumberText(f)
             /\ number_form' = f
    /\ pc' = "awaiting"
    /\ requests' = requests + 1
    /\ UNCHANGED <<response, result, prev>>
    /\ UNCHANGED <<priceVars, pipeVars>>

\* the catalog answers 200 with a list of cards (possibly empty) and the rest
\* of get_card_details runs
CatalogReturns ==
    /\ pc = "awaiting"
    /\ \E cards \in CardLists :
          /\ prev.called => cards \in {<<>>, prev.response.cards}
          /\ response' = [kind |-> "ok", cards |-> cards]
    /\ result' = GetCardDetails(card_name, set_name, card_number, response')
    /\ pc' = "returned"
    /\ UNCHANGED <<card_name, set_name, card_number, number_form, requests, prev>>
    /\ UNCHANGED <<priceVars, pipeVars>>

\* get_card_details sending the request once more after a failure
CatalogFailsRetrying ==
    /\ pc = "awaiting"
    /\ requests < 2
    /\ \E exc \in Failures : response' = [kind |-> exc, cards |-> <<>>]
    /\ requests' = requests + 1
    /\ UNCHANGED <<pc, card_name, set_name, card_number, number_form, result, prev>>
    /\ UNCHANGED <<priceVars, pipeVars>>

\* the catalog request times out, fails in transport or with an HTTP status, or
\* its body cannot be decoded, and the rest of get_card_details runs
CatalogFails ==
    /\ pc = "awaiting"
    /\ \E exc \in Failures : response' = [kind |-> exc, cards |-> <<>>]
    /\ result' = GetCardDetails(card_name, set_name, card_number, response')
    /\ pc' = "returned"
    /\ UNCHANGED <<card_name, set_name, card_number, number_form, requests, prev>>
    /\ UNCHANGED <<priceVars, pipeVars>>

\* the caller calls get_card_details once more with the same arguments
CallAgain ==
    /\ pc = "returned"
    /\ ~prev.called
    /\ prev' = [card_number |-> card_number, number_form |-> number_form,
                response |-> response, result |-> result, called |-> TRUE]
    /\ pc' = "awaiting"
    /\ requests' = 1
    /\ UNCHANGED <<card_name, set_name, card_number, number_form, response, result>>
    /\ UNCHANGED <<priceVars, pipeVars>>

\* the caller calls get_card_details once more, with the bare token as number
CallAgainBare ==
    /\ pc = "returned"
    /\ ~prev.called
    /\ card_number # None
    /\ prev' = [card_number |-> card_number, number_form |-> number_form,
                response |-> response, result |-> result, called |-> TRUE]
    /\ number_form' = BareForm(number_form)
    /\ card_number' = NumberText(number_form')
    /\ pc' = "awaiting"
    /\ requests' = 1
    /\ UNCHANGED <<card_name, set_name, response, result>>
    /\ UNCHANGED <<priceVars, pipeVars>>

\* the request ends; nothing of it is kept
CardDone ==
    /\ pc = "returned"
    /\ pc' = "idle"
    /\ card_name' = None
    /\ set_name' = None
    /\ card_number' = None
    /\ number_form' = NoForm
    /\ response' = NoResponse
    /\ requests' = 0
    /\ result' = NoResult
    /\ prev' = NoPrev
    /\ UNCHANGED <<priceVars, pipeVars>>

Next ==
    \/ CallGetCardDetails
    \/ CatalogReturns
    \/ CatalogFails
    \/ CallAgain
    \/ CallAgainBare
    \/ CardDone

Spec == Init /\ [][Next]_vars

-----------------------------------------------------------------------------
(* get_prices, one step per await *)

\* get_prices is called; it extracts the catalog prices when card_details has
\* a tcgplayer_url, and goes on to the adapters when that gave no price
CallGetPrices ==
    /\ ppc = "idle"
    /\ \E details \in CardDetails :
          /\ card_details' = details
          /\ prices' = IF details.given /\ Truthy(details.tcgplayer_url)
                       THEN ExtractTcgplayerPrices(details)
                       ELSE <<>>
    /\ ppc' = IF prices' = <<>> THEN "tcgplayer" ELSE "aggregate"
    /\ quotes' = <<>>
    /\ UNCHANGED <<report, prev_report>>
    /\ UNCHANGED <<cardVars, pipeVars>>

\* the adapters get_prices calls, in the order of its await expressions
Adapters == <<"tcgplayer", "ebay", "cardmarket">>

\* the adapters whose coroutine get_prices has created so far in this call:
\* those it has awaited to the end and the one it is awaiting
Started ==
    {quotes[i].adapter : i \in 1..Len(quotes)}
    \cup {Adapters[i] : i \in {j \in 1..3 : Adapters[j] = ppc}}

\* get_prices putting the observations of an awaited adapter before those it
\* already has
AfterAdapterPrepending(q, got, next) ==
    /\ quotes' = Append(quotes, q)
    /\ IF got.raised
       THEN /\ ppc' = "returned"
            /\ report' = RaisedReport
            /\ UNCHANGED prices
       ELSE /\ ppc' = next
            /\ prices' = got.prices \o prices
            /\ UNCHANGED report
    /\ UNCHANGED <<card_details, prev_report>>
    /\ UNCHANGED <<cardVars, pipeVars>>

\* what get_prices does with the value an awaited adapter gave
AfterAdapter(q, got, next) ==
    /\ quotes' = Append(quotes, q)
    /\ IF got.raised
       THEN /\ ppc' = "returned"
            /\ report' = RaisedReport
            /\ UNCHANGED prices
       ELSE /\ ppc' = next
            /\ prices' = prices \o got.prices
            /\ UNCHANGED report
    /\ UNCHANGED <<card_details, prev_report>>
    /\ UNCHANGED <<cardVars, pipeVars>>

AwaitTcgplayer ==
    /\ ppc = "tcgplayer"
    /\ \E q \in Quotes("tcgplayer", TcgplayerBases) :
          AfterAdapter(q, GetTcgplayerPrices(q), "ebay")

AwaitEbay ==
    /\ ppc = "ebay"
    /\ \E q \in Quotes("ebay", EbayBases) :
          AfterAdapter(q, GetEbayPrices(q), "cardmarket")

AwaitCardmarket ==
    /\ ppc = "cardmarket"
    /\ \E q \in Quotes("cardmarket", CardmarketBases) :
          AfterAdapter(q, GetCardmarketPrices(q), "aggregate")

\* market price, trend and the returned dictionary
Aggregate ==
    /\ ppc = "aggregate"
    /\ \E market_price \in MarketPrices(prices), trend \in Trends(prices) :
          report' = Report(prices, market_price, trend)
    /\ ppc' = "returned"
    /\ UNCHANGED <<card_details, quotes, prices, prev_report>>
    /\ UNCHANGED <<cardVars, pipeVars>>

\* the caller, having got no price, calls get_prices once more for the same
\* card
CallGetPricesAgain ==
    /\ ppc = "returned"
    /\ prev_report.status = "none"
    /\ report.prices = <<>>
    /\ prev_report' = report
    /\ prices' = IF card_details.given /\ Truthy(card_details.tcgplayer_url)
                 THEN ExtractTcgplayerPrices(card_details)
                 ELSE <<>>
    /\ ppc' = IF prices' = <<>> THEN "tcgplayer" ELSE "aggregate"
    /\ quotes' = <<>>
    /\ UNCHANGED <<card_details, report>>
    /\ UNCHANGED <<cardVars, pipeVars>>

\* the request ends; nothing of it is kept
PriceDone ==
    /\ ppc = "returned"
    /\ ppc' = "idle"
    /\ card_details' = NoDetails
    /\ quotes' = NoQuotes
    /\ prices' = <<>>
    /\ report' = NoReport
    /\ prev_report' = NoReport
    /\ UNCHANGED <<cardVars, pipeVars>>

NextPrice ==
    \/ CallGetPrices
    \/ AwaitTcgplayer
    \/ AwaitEbay
    \/ AwaitCardmarket
    \/ Aggregate
    \/ CallGetPricesAgain
    \/ PriceDone

SpecPrice == Init /\ [][NextPrice]_vars

-----------------------------------------------------------------------------
(* The endpoints /api/identify-card and /api/check-price of app.py *)

\* a file is posted to one of the two endpoints; anything but an image is
\* answered 400
ReceiveUpload ==
    /\ epc = "idle"
    /\ \E e \in {"identify_card", "check_price"}, image \in BOOLEAN :
          /\ endpoint' = e
          /\ IF image
             THEN epc' = "identifying" /\ UNCHANGED http
             ELSE epc' = "responded" /\ http' = NotAnImage
    /\ UNCHANGED <<reply, identification>>
    /\ UNCHANGED <<cardVars, priceVars>>

\* await vision_service.identify_card(...) ends: an exception is answered 500,
\* a false value 404, and with anything else get_card_details is called
VisionAnswers ==
    /\ epc = "identifying"
    /\ \E r \in VisionReplies :
          /\ reply' = r
          /\ LET got == IdentifyCard(r)
             IN  IF got.raised
                 THEN /\ http' = Unexpected
                      /\ epc' = "responded"
                      /\ UNCHANGED <<identification, cardVars>>
                 ELSE IF ~IdentTruthy(got.value)
                 THEN /\ http' = CouldNotIdentify
                      /\ epc' = "responded"
                      /\ identification' = got.value
                      /\ UNCHANGED cardVars
                 ELSE /\ identification' = got.value
                      /\ card_name' = Get(got.value.card_name, None)
                      /\ set_name' = Get(got.value.set_name, None)
                      /\ card_number' = Get(got.value.card_number, None)
                      /\ pc' = "awaiting"
                      /\ requests' = requests + 1
                      /\ epc' = "resolving"
                      /\ UNCHANGED <<number_form, response, result, prev, http>>
    /\ UNCHANGED endpoint
    /\ UNCHANGED priceVars

\* await card_service.get_card_details(...) ends.  identify_card answers with
\* the card; check_price answers 404 for a false value and otherwise calls
\* get_prices with name, id and set of the card and no card_details
CatalogAnswers ==
    /\ epc = "resolving"
    /\ \E outcome \in CatalogOutcomes :
          /\ response' = outcome
          /\ result' = GetCardDetails(card_name, set_name, card_number, outcome)
    /\ pc' = "returned"
    /\ UNCHANGED <<card_name, set_name, card_number, number_form, requests, prev>>
    /\ IF result'.status = "raised"
       THEN /\ http' = Unexpected
            /\ epc' = "responded"
            /\ UNCHANGED priceVars
       ELSE IF endpoint = "identify_card"
       THEN /\ http' = IdentificationResponse(result'.value)
            /\ epc' = "responded"
            /\ UNCHANGED priceVars
       ELSE IF ~DetailsTruthy(result'.value)
       THEN /\ http' = NotInDatabase
            /\ epc' = "responded"
            /\ UNCHANGED priceVars
       ELSE /\ card_details' = NoDetails
            /\ prices' = IF card_details'.given /\ Truthy(card_details'.tcgplayer_url)
                         THEN ExtractTcgplayerPrices(card_details')
                         ELSE <<>>
            /\ ppc' = IF prices' = <<>> THEN "tcgplayer" ELSE "aggregate"
            /\ quotes' = <<>>
            /\ epc' = "pricing"
            /\ UNCHANGED <<report, prev_report, http>>
    /\ UNCHANGED <<endpoint, reply, identification>>

\* await price_service.get_prices(...) ends and check_price answers
RespondPrices ==
    /\ epc = "pricing"
    /\ ppc = "returned"
    /\ http' = IF report.status = "raised" THEN Unexpected
               ELSE PriceCheckResponse(result.value, report)
    /\ epc' = "responded"
    /\ UNCHANGED <<endpoint, reply, identification>>
    /\ UNCHANGED <<cardVars, priceVars>>

\* the response is sent; nothing of the request is kept
RequestDone ==
    /\ epc = "responded"
    /\ pc' = "idle"
    /\ card_name' = None
    /\ set_name' = None
    /\ card_number' = None
    /\ number_form' = NoForm
    /\ response' = NoResponse
    /\ requests' = 0
    /\ result' = NoResult
    /\ prev' = NoPrev
    /\ ppc' = "idle"
    /\ card_details' = NoDetails
    /\ quotes' = NoQuotes
    /\ prices' = <<>>
    /\ report' = NoReport
    /\ prev_report' = NoReport
    /\ epc' = "idle"
    /\ endpoint' = "none"
    /\ reply' = NoReply
    /\ identification' = NullIdent
    /\ http' = NoHttp

NextPipeline ==
    \/ ReceiveUpload
    \/ VisionAnswers
    \/ CatalogAnswers
    \/ AwaitTcgplayer
    \/ AwaitEbay
    \/ AwaitCardmarket
    \/ Aggregate
    \/ RespondPrices
    \/ RequestDone

SpecPipeline == Init /\ [][NextPipeline]_vars

-----------------------------------------------------------------------------
(* Claims about get_card_details *)

StartsWith(s, pre) == Len(pre) <= Len(s) /\ SubSeq(s, 1, Len(pre)) = pre
EndsWith(s, suf) ==
    Len(suf) <= Len(s) /\ SubSeq(s, Len(s) - Len(suf) + 1, Len(s)) = suf

\* the record is the synthetic one of the degrade path
IsDegrade(rec) == rec.set_series = MockSeries /\ rec.rarity = Common

\* the catalog gave no candidates: timeout, transport or HTTP error, or an
\* empty list
Unavailable(r) == r.kind \in Failures \/ (r.kind = "ok" /\ r.cards = <<>>)

\* the record is the one of this catalog card
IsCard(rec, card) ==
    /\ ~IsDegrade(rec)
    /\ rec.id = Get(card.id, None)
    /\ rec.tcgplayer = card.tcgplayer

\* the selection policy as the specification words it
GivenSet    == set_name # None /\ set_name # <<>>
GivenNumber == card_number # None /\ card_number # <<>>
Satisfies(card) ==
    /\ GivenSet =>
          /\ card.set # None
          /\ Contains(Lower(set_name), Lower(Get(card.set, <<>>)))
    /\ GivenNumber =>
          /\ card.number # None
          /\ Contains(number_form.token, Get(card.number, <<>>))
FirstSatisfying(cards) ==
    IF \E i \in 1..Len(cards) : Satisfies(cards[i])
    THEN CHOOSE i \in 1..Len(cards) :
             Satisfies(cards[i]) /\ \A j \in 1..(i - 1) : ~Satisfies(cards[j])
    ELSE 1

\* C1: every call of get_card_details returns, without raising, a record whose
\* id is a non-empty string, whatever the catalog did (cards, no cards, error,
\* timeout, malformed cards).
C1_IdNonEmpty ==
    pc = "returned" =>
        /\ result.status = "returned"
        /\ result.value.id # None
        /\ result.value.id # <<>>

\* C1, the part that holds: get_card_details never raises to its caller, and
\* the id of the degrade record is never empty.
C1_NeverRaises ==
    pc = "returned" =>
        /\ result.status = "returned"
        /\ IsDegrade(result.value) =>
              result.value.id # None /\ result.value.id # <<>>

\* C2: when the catalog returns a non-empty list, the result is the first card
\* of the list that satisfies the set test and the number test, or the first
\* card of the list when none does; never a later one, never the degrade record.
C2_FirstMatchElseFirst ==
    (pc = "returned" /\ response.kind = "ok" /\ response.cards # <<>>) =>
        /\ result.status = "returned"
        /\ IsCard(result.value, response.cards[FirstSatisfying(response.cards)])

\* every card of the list has a set name and a number that are strings
WellFormed(cards) ==
    \A i \in 1..Len(cards) :
        cards[i].set # None /\ cards[i].number # None

\* C2 on lists whose cards carry no null set name or number: there the
\* selection is the one the claim states.
C2_OnWellFormedLists ==
    (pc = "returned" /\ response.kind = "ok" /\ response.cards # <<>>
       /\ WellFormed(response.cards)) =>
        /\ result.status = "returned"
        /\ IsCard(result.value, response.cards[FirstSatisfying(response.cards)])

\* the two calls gave the same answer as far as selection goes: both returned
\* the same catalog card, or both degraded
SameSelection(a, b) ==
    /\ IsDegrade(a.value) = IsDegrade(b.value)
    /\ ~IsDegrade(a.value) => a.value = b.value

\* the current call repeated the one before with the bare token as number and
\* got the same non-empty list from the catalog
BareRepeat ==
    /\ pc = "returned"
    /\ prev.called
    /\ prev.number_form.total # None
    /\ number_form = BareForm(prev.number_form)
    /\ response.kind = "ok" /\ response.cards # <<>>
    /\ prev.response = response

\* C3: a call with number "n/total" (blanks around n allowed) and a call with
\* the bare number "n" select the same card from the same candidate list.
C3_SlashFormSelectsAsBare ==
    BareRepeat => SameSelection(prev.result, result)

\* C3 for a token n that is not empty.
C3_NonEmptyToken ==
    (BareRepeat /\ number_form.token # <<>>) =>
        SameSelection(prev.result, result)

\* C4: with the same arguments, a timeout, a transport or HTTP error and an
\* empty candidate list all give the identical degrade record, and none of
\* them surfaces as an exception.
C4_SameDegradeRecord ==
    /\ (pc = "returned" /\ Unavailable(response)) =>
          result.status = "returned" /\ IsDegrade(result.value)
    /\ (pc = "returned" /\ prev.called /\ prev.card_number = card_number
           /\ Unavailable(response) /\ Unavailable(prev.response)) =>
          result = prev.result

C4_Witness ==
    /\ pc = "returned" /\ prev.called /\ prev.card_number = card_number
    /\ prev.response.kind = "ReadTimeout"
    /\ response = [kind |-> "ok", cards |-> <<>>]
    /\ set_name = sBaseSet
    /\ result = prev.result

\* the number the specification calls normalized: the token before "/",
\* trimmed
NormalizedNumber == IF GivenNumber THEN number_form.token ELSE s001

C6_StartsEndsStable ==
    /\ (pc = "returned" /\ response.kind \in Failures) =>
          /\ GivenSet => StartsWith(result.value.id, Prefix(Lower(set_name), 4))
          /\ GivenNumber => EndsWith(result.value.id, number_form.token)
    /\ (pc = "returned" /\ prev.called /\ prev.card_number = card_number
           /\ response.kind \in Failures /\ prev.response.kind \in Failures) =>
          result.value.id = prev.result.value.id

\* C6, the part that holds: a repeated call with the same arguments and an
\* unreachable catalog gives the same id; without blanks in the set name's
\* first four characters or around the token the id starts and ends as stated.
C6_StableAndPlainInputs ==
    /\ (pc = "returned" /\ response.kind \in Failures
           /\ number_form.lpad = <<>> /\ number_form.rpad = <<>>) =>
          /\ (GivenSet /\ Prefix(set_name, 4) = RemoveSpaces(Prefix(set_name, 4))) =>
                StartsWith(result.value.id, Prefix(Lower(set_name), 4))
          /\ GivenNumber => EndsWith(result.value.id, number_form.token)
    /\ (pc = "returned" /\ prev.called /\ prev.card_number = card_number
           /\ response.kind \in Failures /\ prev.response.kind \in Failures) =>
          result.value.id = prev.result.value.id

-----------------------------------------------------------------------------
(* Claims about get_prices *)

EmptyReport == [status |-> "returned", prices |-> <<>>, market_price |-> Null,
                trend |-> "unknown", total_sources |-> 0]

\* all three adapters were queried in this call and none gave an observation
AllAdaptersGaveNothing ==
    /\ Len(quotes) = 3
    /\ \A i \in 1..3 : quotes[i].fails

\* C7: get_prices never raises, whatever the card and whatever the adapters
\* do; when every adapter contributes nothing it returns the empty report
\* (no observations, market price null, trend "unknown", source count 0), and
\* so does a second call under the same conditions.
C7_NeverRaisesEmptyReport ==
    ppc = "returned" =>
        /\ report.status = "returned"
        /\ AllAdaptersGaveNothing => report = EmptyReport
        /\ (AllAdaptersGaveNothing /\ prev_report.status # "none") =>
              report = prev_report

C7_Witness ==
    /\ ppc = "returned"
    /\ AllAdaptersGaveNothing
    /\ prev_report = EmptyReport
    /\ report = EmptyReport

\* C8: in every returned report market_price is null exactly when there is no
\* observation.
C8_NullIffEmpty ==
    (ppc = "returned" /\ report.status = "returned") =>
        (report.market_price.null <=> report.prices = <<>>)

C8_Witness ==
    /\ ppc = "returned"
    /\ Len(report.prices) = 1
    /\ ~report.market_price.null
    /\ prev_report = EmptyReport

\* C9: every observation of every returned report has a price above 0, on the
\* catalog path (any truthy market value, after rounding) and on the adapter
\* path.
C9_PricesPositive ==
    ppc = "returned" =>
        \A i \in 1..Len(report.prices) : report.prices[i].price > 0

\* C9, the part that holds: the observations of the adapters have prices
\* above 0.
C9_AdapterPricesPositive ==
    (ppc = "returned" /\ quotes # <<>>) =>
        \A i \in 1..Len(report.prices) : report.prices[i].price > 0

\* C10: for a non-empty observation list market_price is the mean of the
\* prices rounded to the cent: it is a whole number of cents at most half a
\* cent from the mean.
C10_MarketPriceIsRoundedMean ==
    (ppc = "returned" /\ report.prices # <<>>) =>
        LET n     == Len(report.prices)
            total == SumPrices(report.prices)
            diff  == n * report.market_price.value - total
        IN  /\ ~report.market_price.null
            /\ 2 * diff <= n
            /\ 2 * diff >= -n

\* C10, the example of the specification: prices 10.00, 20.00, 15.00 give 15.00
C10_Witness ==
    /\ ppc = "returned"
    /\ [i \in 1..Len(report.prices) |-> report.prices[i].price]
           = <<1000, 2000, 1500>>
    /\ report.market_price = Cents(1500)

\* C10 where the mean is no whole number of cents: 10.00, 12.34, 15.00 give
\* 12.45
C10_RoundingWitness ==
    /\ ppc = "returned"
    /\ [i \in 1..Len(report.prices) |-> report.prices[i].price]
           = <<1000, 1234, 1500>>
    /\ report.market_price = Cents(1245)

\* the spread of a price list against its mean, in exact arithmetic:
\* (max - min) / mean compared with 0.3, the variation being 0 when the mean
\* is not above 0
SpreadTimesTen(list) ==
    (Max({list[i].price : i \in 1..Len(list)})
       - Min({list[i].price : i \in 1..Len(list)})) * Len(list) * 10

VariationOver(list)  == SumPrices(list) > 0 /\ SpreadTimesTen(list) > 3 * SumPrices(list)
VariationIsThreeTenths(list) ==
    SumPrices(list) > 0 /\ SpreadTimesTen(list) = 3 * SumPrices(list)

\* the ordered rule of the trend
TrendByRule(list) ==
    IF list = <<>> THEN "unknown"
    ELSE IF VariationOver(list) THEN "volatile"
    ELSE IF list[Len(list)].price = Max({list[i].price : i \in 1..Len(list)})
    THEN "rising"
    ELSE IF list[Len(list)].price = Min({list[i].price : i \in 1..Len(list)})
    THEN "falling"
    ELSE "stable"

\* C11: the trend of a report follows the ordered rule: "unknown" for no
\* observation, "volatile" when (max - min) / mean is strictly above 0.3,
\* else "rising" when the last price is the highest, else "falling" when it is
\* the lowest, else "stable"; a variation of exactly 0.3 is not volatile.
C11_TrendFollowsRule ==
    (ppc = "returned" /\ report.status = "returned") =>
        report.trend = TrendByRule(report.prices)

\* C11, the part that holds: the rule gives the trend wherever the variation
\* is not exactly 0.3, and all-equal prices are "rising".
C11_TrendFollowsRuleOffTie ==
    (ppc = "returned" /\ report.status = "returned"
       /\ ~VariationIsThreeTenths(report.prices)) =>
        /\ report.trend = TrendByRule(report.prices)
        /\ (report.prices # <<>>
              /\ \A i \in 1..Len(report.prices) :
                    report.prices[i].price = report.prices[1].price)
           => report.trend = "rising"

\* C11: catalog prices 11.90 and 16.10, variation exactly 0.3, reported
\* "volatile"
C11_TieReportedVolatile ==
    /\ ppc = "returned"
    /\ [i \in 1..Len(report.prices) |-> report.prices[i].price] = <<1190, 1610>>
    /\ report.trend = "volatile"

\* C20: a report has trend "stable" only when it holds at least three
\* observations, the last price lies strictly between the lowest and the
\* highest, and the variation is at most 0.3; a report with exactly one
\* observation has trend "rising".
C20_StableNeedsThree ==
    (ppc = "returned" /\ report.status = "returned") =>
        LET list == report.prices
            n    == Len(list)
            all  == {list[i].price : i \in 1..n}
        IN  /\ report.trend = "stable" =>
                  /\ n >= 3
                  /\ Min(all) < list[n].price
                  /\ list[n].price < Max(all)
                  /\ ~VariationOver(list)
            /\ n = 1 => report.trend = "rising"

\* C20: catalog prices 10.00, 12.34, 11.90 are reported "stable"
C20_Witness ==
    /\ ppc = "returned"
    /\ Len(report.prices) = 3
    /\ report.trend = "stable"

\* C20: a single observation, reported "rising"
C20_SingleWitness ==
    /\ ppc = "returned"
    /\ Len(report.prices) = 1
    /\ report.trend = "rising"

\* the variants of a price block that carry a market value other than null
\* and zero, in the order normal, holofoil, reverseHolofoil, 1stEdition
PricedVariants(tcg_prices) ==
    SelectSeq(<<1, 2, 3, 4>>,
              LAMBDA i : tcg_prices[i].kind = "value" /\ tcg_prices[i].market # 0)

\* list holds one observation for each priced variant of the price block, in
\* order, with the label of the variant, the listing URL of the catalog (the
\* TCGPlayer home page when the catalog gave none), USD and in_stock
OnePerPricedVariant(list, tcg) ==
    LET idx == PricedVariants(tcg.prices)
    IN  /\ Len(list) = Len(idx)
        /\ \A k \in 1..Len(idx) :
              /\ list[k].source = "TCGPlayer"
              /\ list[k].price = RoundMills(tcg.prices[idx[k]].market)
              /\ list[k].condition =
                    <<"Near Mint", "Near Mint (Holofoil)", "Near Mint (Reverse Holo)",
                      "Near Mint (1st Edition)">>[idx[k]]
              /\ list[k].url = IF tcg.url = Absent THEN sTcgHome ELSE tcg.url
              /\ list[k].currency = "USD"
              /\ list[k].in_stock

\* get_prices has just run _extract_tcgplayer_prices on card_details
Extracted ==
    /\ ppc \in {"tcgplayer", "aggregate"}
    /\ quotes = <<>>
    /\ card_details.given
    /\ Truthy(card_details.tcgplayer_url)

\* C12: _extract_tcgplayer_prices gives exactly one observation for each of
\* the variants normal, holofoil, reverseHolofoil, 1stEdition with a non-null,
\* non-zero market value, in that order, each with the label of its variant,
\* the listing URL, USD and in_stock; any other variant gives none.
C12_OnePerPricedVariant ==
    Extracted => OnePerPricedVariant(prices, card_details.tcgplayer)

\* C12, the part that holds: the same where every variant present in the
\* price block is a mapping.
C12_OnePerPricedVariantOfMappings ==
    (Extracted /\ \A i \in 1..4 : card_details.tcgplayer.prices[i].kind # "nodict")
        => OnePerPricedVariant(prices, card_details.tcgplayer)

\* C12: normal is null and holofoil has a market value; nothing is extracted
C12_LaterVariantLost ==
    /\ Extracted
    /\ card_details.tcgplayer.prices[1].kind = "nodict"
    /\ card_details.tcgplayer.prices[2] = VMarket(12340)
    /\ prices = <<>>

\* the sources of the observations of a list, in order
Sources(list) == [i \in 1..Len(list) |-> list[i].source]

\* what the adapters that did not fail gave in this call, in the order
\* TCGPlayer, eBay, Cardmarket
SucceededObservations ==
    (IF quotes[1].fails THEN <<>> ELSE GetTcgplayerPrices(quotes[1]).prices)
    \o (IF quotes[2].fails THEN <<>> ELSE GetEbayPrices(quotes[2]).prices)
    \o (IF quotes[3].fails THEN <<>> ELSE GetCardmarketPrices(quotes[3]).prices)

\* C13: on the adapter path, whichever of the three adapters fail, get_prices
\* returns the observations of those that succeeded, in the order TCGPlayer,
\* eBay, Cardmarket and within each adapter in its own order, and
\* total_sources is the number of observations returned.
C13_SucceededInOrder ==
    (ppc = "returned" /\ Len(quotes) = 3) =>
        /\ report.status = "returned"
        /\ report.prices = SucceededObservations
        /\ Sources(report.prices) =
              (IF quotes[1].fails THEN <<>> ELSE <<"TCGPlayer", "TCGPlayer">>)
              \o (IF quotes[2].fails THEN <<>> ELSE <<"eBay", "eBay">>)
              \o (IF quotes[3].fails THEN <<>> ELSE <<"Cardmarket">>)
        /\ report.total_sources = Len(report.prices)

\* C13: eBay failed, TCGPlayer and Cardmarket gave their observations
C13_Witness ==
    /\ ppc = "returned"
    /\ Len(quotes) = 3
    /\ ~quotes[1].fails /\ quotes[2].fails /\ ~quotes[3].fails
    /\ Sources(report.prices) = <<"TCGPlayer", "TCGPlayer", "Cardmarket">>
    /\ report.total_sources = 3

\* the card given to get_prices carries catalog pricing with at least one
\* populated variant
HasCatalogPricing ==
    /\ card_details.given
    /\ PricedVariants(card_details.tcgplayer.prices) # <<>>

\* C14: whenever the card given to get_prices carries catalog pricing with at
\* least one populated variant, the observations of the report are exactly
\* those extracted from the variants and no adapter is queried; adapters are
\* queried only for a card without catalog pricing.
C14_CatalogPricingUsed ==
    (ppc = "returned" /\ HasCatalogPricing) =>
        /\ quotes = <<>>
        /\ OnePerPricedVariant(report.prices, card_details.tcgplayer)

\* C14, the part that holds: the same for a card that also has a listing URL
\* and whose variants are all mappings.
C14_CatalogPricingUsedWithUrl ==
    (ppc = "returned" /\ HasCatalogPricing
       /\ Truthy(card_details.tcgplayer_url)
       /\ \A i \in 1..4 : card_details.tcgplayer.prices[i].kind # "nodict") =>
        /\ quotes = <<>>
        /\ OnePerPricedVariant(report.prices, card_details.tcgplayer)

\* C14: a card with a holofoil market value and no listing URL; the adapters
\* were queried and the report holds their observations
C14_AdaptersDespitePricing ==
    /\ ppc = "returned"
    /\ card_details.given
    /\ card_details.tcgplayer = HoloTcgNoUrl
    /\ Len(quotes) = 3
    /\ Sources(report.prices) = <<"eBay", "eBay">>

\* C19: a call of get_card_details issues at most one catalog request; after
\* a failed or empty response the call has issued no further request and
\* returns the degrade record.
C19_OneRequestNoRetry ==
    /\ requests <= 1
    /\ pc \in {"awaiting", "returned"} => requests = 1
    /\ (pc = "returned" /\ Unavailable(response)) =>
          /\ requests = 1
          /\ result.status = "returned"
          /\ IsDegrade(result.value)

\* C19: the one request timed out and the call returned the degrade record
C19_Witness ==
    /\ pc = "returned"
    /\ response.kind = "ReadTimeout"
    /\ requests = 1
    /\ IsDegrade(result.value)

\* C16: on the adapter path all three adapter calls are issued before the
\* result of any of them is awaited, so that none waits for another, and
\* they are joined before market price and trend are computed.
C16_AllStartedBeforeAwait ==
    /\ ppc \in {"tcgplayer", "ebay", "cardmarket"} =>
          Started = {"tcgplayer", "ebay", "cardmarket"}
    /\ (ppc = "aggregate" /\ quotes # <<>>) => Len(quotes) = 3

\* C16, the part that holds: the adapters are called one after the other in
\* the order TCGPlayer, eBay, Cardmarket, each after the one before it has
\* given its result, and market price and trend are computed after the last.
C16_OneAfterTheOther ==
    /\ ppc = "tcgplayer" => quotes = <<>>
    /\ ppc = "ebay" => [i \in 1..Len(quotes) |-> quotes[i].adapter] = <<"tcgplayer">>
    /\ ppc = "cardmarket" =>
          [i \in 1..Len(quotes) |-> quotes[i].adapter] = <<"tcgplayer", "ebay">>
    /\ (ppc = "aggregate" /\ quotes # <<>>) => Len(quotes) = 3

\* C16: get_prices awaits the TCGPlayer adapter and no other adapter has been
\* started
C16_OnlyTcgplayerStarted ==
    /\ ppc = "tcgplayer"
    /\ Started = {"tcgplayer"}

-----------------------------------------------------------------------------
(* Claims about the endpoints *)

\* check_price has answered an upload whose card the resolver took from the
\* catalog, with at least one populated price variant
AnsweredCatalogCard ==
    /\ epc = "responded"
    /\ endpoint = "check_price"
    /\ result.status = "returned"
    /\ ~IsDegrade(result.value)
    /\ PricedVariants(result.value.tcgplayer.prices) # <<>>

\* C15: in check_price the card the resolver returned, with its catalog price
\* data, is what get_prices receives; when that card comes from the catalog
\* and has populated price variants, the report answered is built from those
\* catalog prices and no adapter is queried.
C15_CatalogPricesReachReport ==
    (AnsweredCatalogCard /\ http.status = 200) =>
        /\ card_details.given
        /\ card_details.tcgplayer = result.value.tcgplayer
        /\ quotes = <<>>
        /\ OnePerPricedVariant(http.body.prices, result.value.tcgplayer)

\* C15, what happens instead: get_prices receives no card_details and every
\* price answered by check_price comes from the adapters.
C15_OnlyAdapterPrices ==
    (epc = "responded" /\ endpoint = "check_price" /\ http.status = 200) =>
        /\ ~card_details.given
        /\ Len(quotes) = 3
        /\ http.body.prices = SucceededObservations

\* C15: the resolver matched the catalog card b1-58 with holofoil market
\* value 12.34 and the answer holds the five adapter observations
C15_CatalogPricesDropped ==
    /\ AnsweredCatalogCard
    /\ http.status = 200
    /\ result.value.tcgplayer = HoloTcg
    /\ Sources(http.body.prices) = <<"TCGPlayer", "TCGPlayer", "eBay", "eBay", "Cardmarket">>

\* the recognizer gave a usable identification: an object naming the card
UsableIdentification ==
    /\ reply.kind \in {"bare_json", "fenced_json"}
    /\ reply.value.shape = "dict"
    /\ reply.value.card_name # Absent

\* C17: in check_price, given a usable identification, no outcome of the
\* catalog request and no outcome of the adapters leads to a 404 or 500
\* answer: the request ends with a price report.
C17_AlwaysAPriceReport ==
    (epc = "responded" /\ endpoint = "check_price" /\ UsableIdentification) =>
        http.status = 200

\* C17, the part that holds: the same where every card the catalog returned
\* carries an id, a set name and a number that are strings, and whenever the
\* catalog gave no card at all.
C17_ReportForWellFormedCatalog ==
    (epc = "responded" /\ endpoint = "check_price" /\ UsableIdentification
       /\ \A i \in 1..Len(response.cards) :
             /\ response.cards[i].id \notin {None, Absent}
             /\ response.cards[i].set \notin {None, Absent}
             /\ response.cards[i].number \notin {None, Absent}) =>
        /\ http.status = 200
        /\ http.body.prices = report.prices
        /\ http.body.market_price = report.market_price

\* C17: the catalog timed out, every adapter failed, and check_price answered
\* 200 with the degrade card and the empty report
C17_DegradedAnswer ==
    /\ epc = "responded"
    /\ endpoint = "check_price"
    /\ response.kind = "ReadTimeout"
    /\ AllAdaptersGaveNothing
    /\ http.status = 200
    /\ http.body.prices = <<>>

\* the recognizer returned nothing parseable: text that is no JSON, or the
\* JSON values null and {}
NothingParseable ==
    \/ reply.kind = "text"
    \/ /\ reply.kind \in {"bare_json", "fenced_json"}
       /\ reply.value.shape \in {"null", "empty"}

\* C18: when the recognizer returns nothing parseable both endpoints answer
\* 404 "could not identify", not 500, and neither get_card_details nor
\* get_prices is called.
C18_NothingParseableIs404 ==
    (epc = "responded" /\ NothingParseable) =>
        /\ http = CouldNotIdentify
        /\ requests = 0
        /\ ppc = "idle" /\ quotes = <<>>

\* C18, the part that holds: null and {} are answered 404 "could not
\* identify", and whatever the recognizer returned that is nothing parseable,
\* neither get_card_details nor get_prices is called.
C18_NoResultIs404 ==
    (epc = "responded" /\ NothingParseable) =>
        /\ reply.kind # "text" => http = CouldNotIdentify
        /\ requests = 0
        /\ ppc = "idle" /\ quotes = <<>>

\* C18: the recognizer's text is no JSON and check_price answered 500
C18_UnparseableIs500 ==
    /\ epc = "responded"
    /\ endpoint = "check_price"
    /\ reply.kind = "text"
    /\ http.status = 500

\* C21: check_price never answers 404 "not found in database": whatever the
\* catalog request produced, get_card_details returned a non-empty record
\* (matched card, first candidate or degrade record), so after a successful
\* identification check_price goes on to call get_prices.
C21_NotFoundUnreachable ==
    /\ http # NotInDatabase
    /\ (endpoint = "check_price" /\ pc = "returned") =>
          /\ result.status = "returned"
          /\ DetailsTruthy(result.value)
          /\ epc \in {"pricing", "responded"}
          /\ ppc # "idle"

\* C21: the catalog gave no card, get_card_details returned the degrade
\* record and check_price answered with the report of get_prices
C21_Witness ==
    /\ epc = "responded"
    /\ endpoint = "check_price"
    /\ Unavailable(response)
    /\ IsDegrade(result.value)
    /\ ppc = "returned"
    /\ http.status = 200

\* C21: no candidate matched, get_card_details returned the first one and
\* check_price called get_prices
C21_FirstCandidateWitness ==
    /\ epc = "pricing"
    /\ response.kind = "ok"
    /\ card_number = s58of102
    /\ Len(response.cards) = 1
    /\ response.cards[1].number = s5
    /\ result.value.id = response.cards[1].id

====
